---------------------------- MODULE Spec2Model ----------------------------
(***************************************************************************)
(* Dual marching cubes mesher (dualmc::Mesher<T>, include/dmc/dualmc.hpp). *)
(* One Mesher instance is modelled together with the caller that invokes   *)
(* Build on it, one call after another.  A Build call is followed through  *)
(* its entry (the three assertions, the field assignments and the cache    *)
(* clear), the sweep of BuildInternal up to each sign-changing grid edge,  *)
(* the four GetSharedDualPointIndex requests of ConstructFace, the index   *)
(* emission, and the return.                                               *)
(*                                                                         *)
(* Samples and the iso value are integers (the template parameter T).      *)
(* Their conversion to float is modelled; the float arithmetic on the      *)
(* converted values is exact: vertex positions are rationals               *)
(* <<numerator, denominator>>, and a zero denominator stands for the       *)
(* non-finite IEEE results of a division by zero.                          *)
(***************************************************************************)
EXTENDS Integers, Sequences, FiniteSets, TLC

VARIABLES
    args,              \* the caller's arguments of the current Build call
    pc,                \* "idle", "sweep", "face", "returned", "aborted"
    dims,              \* Mesher::dims
    volume,            \* Mesher::volume (the span over the caller's buffer)
    generateManifold,  \* Mesher::generateManifold
    pointToIndex,      \* Mesher::pointToIndex
    mesh,              \* the Mesh local of Build: [vertices, indices]
    loop,              \* position of the BuildInternal loops (rank of x,y,z,axis)
    face,              \* ConstructFace: the indices i0.. obtained so far
    hist,              \* history of the current call (keys, emitted edges)
    prev               \* the previous returned call: its arguments and result

vars == <<args, pc, dims, volume, generateManifold, pointToIndex, mesh, loop,
          face, hist, prev>>

---------------------------------------------------------------------------
(* enum DMCEdgeCode *)
EDGE0 == 1
EDGE1 == 2
EDGE2 == 4
EDGE3 == 8
EDGE4 == 16
EDGE5 == 32
EDGE6 == 64
EDGE7 == 128
EDGE8 == 256
EDGE9 == 512
EDGE10 == 1024
EDGE11 == 2048

(* enum class Topology *)
Triangles == "Triangles"
Quads == "Quads"

(* dualPointsList[256][4]; row c is dualPointsList[c + 1] *)
dualPointsList ==
  <<
    <<0, 0, 0, 0>>, <<265, 0, 0, 0>>, <<515, 0, 0, 0>>, <<778, 0, 0, 0>>,
    <<400, 0, 0, 0>>, <<153, 0, 0, 0>>, <<515, 400, 0, 0>>, <<666, 0, 0, 0>>,
    <<560, 0, 0, 0>>, <<265, 560, 0, 0>>, <<51, 0, 0, 0>>, <<314, 0, 0, 0>>,
    <<928, 0, 0, 0>>, <<681, 0, 0, 0>>, <<419, 0, 0, 0>>, <<170, 0, 0, 0>>,
    <<2060, 0, 0, 0>>, <<2309, 0, 0, 0>>, <<515, 2060, 0, 0>>, <<2822, 0, 0, 0>>,
    <<400, 2060, 0, 0>>, <<2197, 0, 0, 0>>, <<515, 400, 2060, 0>>, <<2710, 0, 0, 0>>,
    <<560, 2060, 0, 0>>, <<2309, 560, 0, 0>>, <<51, 2060, 0, 0>>, <<2358, 0, 0, 0>>,
    <<928, 2060, 0, 0>>, <<2725, 0, 0, 0>>, <<419, 2060, 0, 0>>, <<2214, 0, 0, 0>>,
    <<1030, 0, 0, 0>>, <<265, 1030, 0, 0>>, <<1541, 0, 0, 0>>, <<1804, 0, 0, 0>>,
    <<400, 1030, 0, 0>>, <<153, 1030, 0, 0>>, <<1541, 400, 0, 0>>, <<1692, 0, 0, 0>>,
    <<560, 1030, 0, 0>>, <<265, 560, 1030, 0>>, <<1077, 0, 0, 0>>, <<1340, 0, 0, 0>>,
    <<928, 1030, 0, 0>>, <<681, 1030, 0, 0>>, <<1445, 0, 0, 0>>, <<1196, 0, 0, 0>>,
    <<3082, 0, 0, 0>>, <<3331, 0, 0, 0>>, <<3593, 0, 0, 0>>, <<3840, 0, 0, 0>>,
    <<400, 3082, 0, 0>>, <<3219, 0, 0, 0>>, <<3593, 400, 0, 0>>, <<3728, 0, 0, 0>>,
    <<560, 3082, 0, 0>>, <<3331, 560, 0, 0>>, <<3129, 0, 0, 0>>, <<3376, 0, 0, 0>>,
    <<928, 3082, 0, 0>>, <<3747, 0, 0, 0>>, <<3497, 0, 0, 0>>, <<3232, 0, 0, 0>>,
    <<2240, 0, 0, 0>>, <<265, 2240, 0, 0>>, <<515, 2240, 0, 0>>, <<778, 2240, 0, 0>>,
    <<2384, 0, 0, 0>>, <<2137, 0, 0, 0>>, <<515, 2384, 0, 0>>, <<2650, 0, 0, 0>>,
    <<560, 2240, 0, 0>>, <<265, 560, 2240, 0>>, <<51, 2240, 0, 0>>, <<314, 2240, 0, 0>>,
    <<2912, 0, 0, 0>>, <<2665, 0, 0, 0>>, <<2403, 0, 0, 0>>, <<2154, 0, 0, 0>>,
    <<204, 0, 0, 0>>, <<453, 0, 0, 0>>, <<515, 204, 0, 0>>, <<966, 0, 0, 0>>,
    <<348, 0, 0, 0>>, <<85, 0, 0, 0>>, <<515, 348, 0, 0>>, <<598, 0, 0, 0>>,
    <<560, 204, 0, 0>>, <<453, 560, 0, 0>>, <<51, 204, 0, 0>>, <<502, 0, 0, 0>>,
    <<876, 0, 0, 0>>, <<613, 0, 0, 0>>, <<367, 0, 0, 0>>, <<102, 0, 0, 0>>,
    <<1030, 2240, 0, 0>>, <<265, 1030, 2240, 0>>, <<1541, 2240, 0, 0>>, <<1804, 2240, 0, 0>>,
    <<2384, 1030, 0, 0>>, <<2137, 1030, 0, 0>>, <<1541, 2384, 0, 0>>, <<3676, 0, 0, 0>>,
    <<560, 1030, 2240, 0>>, <<265, 560, 1030, 2240>>, <<1077, 2240, 0, 0>>, <<1340, 2240, 0, 0>>,
    <<2912, 1030, 0, 0>>, <<2665, 1030, 0, 0>>, <<3429, 0, 0, 0>>, <<3180, 0, 0, 0>>,
    <<1226, 0, 0, 0>>, <<1475, 0, 0, 0>>, <<1737, 0, 0, 0>>, <<1984, 0, 0, 0>>,
    <<1370, 0, 0, 0>>, <<1107, 0, 0, 0>>, <<1881, 0, 0, 0>>, <<1616, 0, 0, 0>>,
    <<560, 1226, 0, 0>>, <<1475, 560, 0, 0>>, <<1273, 0, 0, 0>>, <<1520, 0, 0, 0>>,
    <<1898, 0, 0, 0>>, <<1635, 0, 0, 0>>, <<265, 1120, 0, 0>>, <<1120, 0, 0, 0>>,
    <<1120, 0, 0, 0>>, <<265, 1120, 0, 0>>, <<515, 1120, 0, 0>>, <<778, 1120, 0, 0>>,
    <<400, 1120, 0, 0>>, <<153, 1120, 0, 0>>, <<515, 400, 1120, 0>>, <<666, 1120, 0, 0>>,
    <<1616, 0, 0, 0>>, <<265, 1616, 0, 0>>, <<1107, 0, 0, 0>>, <<1370, 0, 0, 0>>,
    <<1984, 0, 0, 0>>, <<1737, 0, 0, 0>>, <<1475, 0, 0, 0>>, <<1226, 0, 0, 0>>,
    <<2060, 1120, 0, 0>>, <<2309, 1120, 0, 0>>, <<515, 2060, 1120, 0>>, <<2822, 1120, 0, 0>>,
    <<400, 2060, 1120, 0>>, <<2197, 1120, 0, 0>>, <<515, 400, 2060, 1120>>, <<2710, 1120, 0, 0>>,
    <<1616, 2060, 0, 0>>, <<2309, 1616, 0, 0>>, <<1107, 2060, 0, 0>>, <<3414, 0, 0, 0>>,
    <<1984, 2060, 0, 0>>, <<3781, 0, 0, 0>>, <<1475, 2060, 0, 0>>, <<3270, 0, 0, 0>>,
    <<102, 0, 0, 0>>, <<265, 102, 0, 0>>, <<613, 0, 0, 0>>, <<876, 0, 0, 0>>,
    <<400, 102, 0, 0>>, <<153, 102, 0, 0>>, <<613, 400, 0, 0>>, <<764, 0, 0, 0>>,
    <<598, 0, 0, 0>>, <<265, 598, 0, 0>>, <<85, 0, 0, 0>>, <<348, 0, 0, 0>>,
    <<966, 0, 0, 0>>, <<719, 0, 0, 0>>, <<453, 0, 0, 0>>, <<204, 0, 0, 0>>,
    <<2154, 0, 0, 0>>, <<2403, 0, 0, 0>>, <<2665, 0, 0, 0>>, <<2912, 0, 0, 0>>,
    <<400, 2154, 0, 0>>, <<2291, 0, 0, 0>>, <<2665, 400, 0, 0>>, <<2800, 0, 0, 0>>,
    <<2650, 0, 0, 0>>, <<2899, 0, 0, 0>>, <<2137, 0, 0, 0>>, <<2384, 0, 0, 0>>,
    <<3018, 0, 0, 0>>, <<515, 2240, 0, 0>>, <<2505, 0, 0, 0>>, <<2240, 0, 0, 0>>,
    <<3232, 0, 0, 0>>, <<265, 3232, 0, 0>>, <<515, 3232, 0, 0>>, <<778, 3232, 0, 0>>,
    <<3376, 0, 0, 0>>, <<3129, 0, 0, 0>>, <<515, 3376, 0, 0>>, <<3642, 0, 0, 0>>,
    <<3728, 0, 0, 0>>, <<265, 3728, 0, 0>>, <<3219, 0, 0, 0>>, <<3482, 0, 0, 0>>,
    <<3840, 0, 0, 0>>, <<3593, 0, 0, 0>>, <<3331, 0, 0, 0>>, <<3082, 0, 0, 0>>,
    <<1196, 0, 0, 0>>, <<1445, 0, 0, 0>>, <<515, 1196, 0, 0>>, <<1958, 0, 0, 0>>,
    <<1340, 0, 0, 0>>, <<1077, 0, 0, 0>>, <<515, 1340, 0, 0>>, <<1590, 0, 0, 0>>,
    <<1692, 0, 0, 0>>, <<1941, 0, 0, 0>>, <<1183, 0, 0, 0>>, <<400, 1030, 0, 0>>,
    <<1804, 0, 0, 0>>, <<1541, 0, 0, 0>>, <<1295, 0, 0, 0>>, <<1030, 0, 0, 0>>,
    <<2214, 0, 0, 0>>, <<265, 2214, 0, 0>>, <<2725, 0, 0, 0>>, <<2988, 0, 0, 0>>,
    <<2358, 0, 0, 0>>, <<2111, 0, 0, 0>>, <<2869, 0, 0, 0>>, <<560, 2060, 0, 0>>,
    <<2710, 0, 0, 0>>, <<265, 2710, 0, 0>>, <<2197, 0, 0, 0>>, <<2460, 0, 0, 0>>,
    <<2822, 0, 0, 0>>, <<2575, 0, 0, 0>>, <<2309, 0, 0, 0>>, <<2060, 0, 0, 0>>,
    <<170, 0, 0, 0>>, <<419, 0, 0, 0>>, <<681, 0, 0, 0>>, <<928, 0, 0, 0>>,
    <<314, 0, 0, 0>>, <<51, 0, 0, 0>>, <<825, 0, 0, 0>>, <<560, 0, 0, 0>>,
    <<666, 0, 0, 0>>, <<915, 0, 0, 0>>, <<153, 0, 0, 0>>, <<400, 0, 0, 0>>,
    <<778, 0, 0, 0>>, <<515, 0, 0, 0>>, <<265, 0, 0, 0>>, <<0, 0, 0, 0>>
  >>

problematicConfigs ==
  <<
    255, 255, 255, 255, 255, 255, 255, 255, 255, 255, 255, 255, 255, 255, 255, 255,
    255, 255, 255, 255, 255, 255, 255, 255, 255, 255, 255, 255, 255, 255, 255, 255,
    255, 255, 255, 255, 255, 255, 255, 255, 255, 255, 255, 255, 255, 255, 255, 255,
    255, 255, 255, 255, 255, 255, 255, 255, 255, 255, 255, 255, 255, 1, 0, 255,
    255, 255, 255, 255, 255, 255, 255, 255, 255, 255, 255, 255, 255, 255, 255, 255,
    255, 255, 255, 255, 255, 255, 255, 255, 255, 255, 255, 3, 255, 255, 2, 255,
    255, 255, 255, 255, 255, 255, 255, 5, 255, 255, 255, 255, 255, 255, 5, 5,
    255, 255, 255, 255, 255, 255, 4, 255, 255, 255, 3, 3, 1, 1, 255, 255,
    255, 255, 255, 255, 255, 255, 255, 255, 255, 255, 255, 255, 255, 255, 255, 255,
    255, 255, 255, 255, 255, 255, 255, 255, 255, 255, 255, 5, 255, 5, 255, 5,
    255, 255, 255, 255, 255, 255, 255, 3, 255, 255, 255, 255, 255, 2, 255, 255,
    255, 255, 255, 255, 255, 3, 255, 3, 255, 4, 255, 255, 0, 255, 0, 255,
    255, 255, 255, 255, 255, 255, 255, 1, 255, 255, 255, 0, 255, 255, 255, 255,
    255, 255, 255, 1, 255, 255, 255, 1, 255, 4, 2, 255, 255, 255, 2, 255,
    255, 255, 255, 0, 255, 2, 4, 255, 255, 255, 255, 0, 255, 2, 255, 255,
    255, 255, 255, 255, 255, 255, 4, 255, 255, 4, 255, 255, 255, 255, 255, 255
  >>

---------------------------------------------------------------------------
(* mask & edge, for a single-bit edge code *)
HasEdge(mask, edge) == (mask \div edge) % 2 = 1

(* Mesher::gA(x, y, z) on the given extent *)
gAOn(d, x, y, z) == x + d[1] * (y + d[2] * z)

gA(x, y, z) == gAOn(dims, x, y, z)

(* volume[gA(x, y, z)] *)
Sample(x, y, z) == volume[gA(x, y, z) + 1]

(* mutant: the second conjunct of each test is dropped *)
GetStatusNoStep(iso, x, y, z, xOffset, yOffset, zOffset) ==
    << Sample(x, y, z) >= iso, Sample(x, y, z) < iso >>

(* Mesher::GetStatus: <<entering, exiting>> *)
GetStatus(iso, x, y, z, xOffset, yOffset, zOffset) ==
    << Sample(x, y, z) >= iso /\ Sample(x + xOffset, y + yOffset, z + zOffset) < iso,
       Sample(x, y, z) < iso /\ Sample(x + xOffset, y + yOffset, z + zOffset) >= iso >>

(* Mesher::GetCellCode *)
GetCellCode(cell, iso) ==
      (IF Sample(cell[1],     cell[2],     cell[3])     >= iso THEN 1   ELSE 0)
    + (IF Sample(cell[1] + 1, cell[2],     cell[3])     >= iso THEN 2   ELSE 0)
    + (IF Sample(cell[1],     cell[2] + 1, cell[3])     >= iso THEN 4   ELSE 0)
    + (IF Sample(cell[1] + 1, cell[2] + 1, cell[3])     >= iso THEN 8   ELSE 0)
    + (IF Sample(cell[1],     cell[2],     cell[3] + 1) >= iso THEN 16  ELSE 0)
    + (IF Sample(cell[1] + 1, cell[2],     cell[3] + 1) >= iso THEN 32  ELSE 0)
    + (IF Sample(cell[1],     cell[2] + 1, cell[3] + 1) >= iso THEN 64  ELSE 0)
    + (IF Sample(cell[1] + 1, cell[2] + 1, cell[3] + 1) >= iso THEN 128 ELSE 0)

(* mutant: the sign bit of the direction is ignored *)
NeighborCoordsForward(cell, direction) ==
    [cell EXCEPT ![(direction \div 2) + 1] = @ + 1]

(* the neighbour cell the manifold resolver looks at for a direction code *)
NeighborCoords(cell, direction) ==
    LET component == direction \div 2
        delta == IF direction % 2 = 1 THEN 1 ELSE -1
    IN  [cell EXCEPT ![component + 1] = @ + delta]

(* mutant: the manifold resolver never inverts *)
ResolveNever(cell, iso, manifold) == GetCellCode(cell, iso)

(* mutant: the manifold resolver does not look at the neighbour cell *)
ResolveWithoutNeighbor(cell, iso, manifold) ==
    LET cubeCode == GetCellCode(cell, iso)
    IN  IF manifold /\ problematicConfigs[cubeCode + 1] # 255
        THEN 255 - cubeCode
        ELSE cubeCode

(* mutant: the lower end of the range is not tested *)
NeighborInRangeAbove(neighborCoords, component) ==
    neighborCoords[component + 1] < dims[component + 1] - 1

(* "have we left the volume in this direction?" *)
NeighborInRange(neighborCoords, component) ==
    /\ neighborCoords[component + 1] >= 0
    /\ neighborCoords[component + 1] < dims[component + 1] - 1

(* Mesher::GetDualPointCode, the cube code after the manifold step *)
ResolveCubeCode(cell, iso, manifold) ==
    LET cubeCode == GetCellCode(cell, iso)
        direction == problematicConfigs[cubeCode + 1]
        neighborCoords == NeighborCoords(cell, direction)
        component == direction \div 2
    IN  IF /\ manifold
           /\ direction # 255
           /\ NeighborInRange(neighborCoords, component)
           /\ problematicConfigs[GetCellCode(neighborCoords, iso) + 1] # 255
        THEN 255 - cubeCode
        ELSE cubeCode

(* the grid points whose samples GetCellCode reads: the corners of the cell *)
CellCorners(cell) ==
    {<<cell[1] + i, cell[2] + j, cell[3] + k>> : i \in 0..1, j \in 0..1, k \in 0..1}

(* the grid points whose samples one GetDualPointCode call reads *)
GetDualPointCodeReads(cell, iso) ==
    LET direction == problematicConfigs[GetCellCode(cell, iso) + 1]
        neighborCoords == NeighborCoords(cell, direction)
    IN  CellCorners(cell)
        \cup (IF /\ generateManifold
                 /\ direction # 255
                 /\ NeighborInRange(neighborCoords, direction \div 2)
              THEN CellCorners(neighborCoords)
              ELSE {})

(* Mesher::GetDualPointCode, the scan of the row: first mask holding edge *)
FirstMask(cubeCode, edge) ==
    LET row == dualPointsList[cubeCode + 1]
    IN  IF HasEdge(row[1], edge) THEN row[1]
        ELSE IF HasEdge(row[2], edge) THEN row[2]
        ELSE IF HasEdge(row[3], edge) THEN row[3]
        ELSE IF HasEdge(row[4], edge) THEN row[4]
        ELSE 0

(* Mesher::GetDualPointCode *)
GetDualPointCode(cell, iso, edge) ==
    FirstMask(ResolveCubeCode(cell, iso, generateManifold), edge)

---------------------------------------------------------------------------
(* Exact arithmetic for the float expressions of CalculateDualPoint.  A    *)
(* value is <<n, d>> in lowest terms with d >= 0; d = 0 is a non-finite    *)
(* float: <<1, 0>> +inf, <<-1, 0>> -inf, <<0, 0>> NaN.                     *)
RECURSIVE Gcd(_, _)
Gcd(a, b) == IF b = 0 THEN a ELSE Gcd(b, a % b)

Abs(n) == IF n < 0 THEN -n ELSE n

Sign(n) == IF n < 0 THEN -1 ELSE IF n > 0 THEN 1 ELSE 0

(* n / d *)
FDiv(n, d) ==
    IF d = 0 THEN <<Sign(n), 0>>
    ELSE LET g == Gcd(Abs(n), Abs(d))
         IN  <<(Sign(d) * n) \div g, Abs(d) \div g>>

(* a + b *)
FAdd(a, b) ==
    IF a[2] = 0 /\ b[2] = 0 THEN (IF a[1] = b[1] THEN a ELSE <<0, 0>>)
    ELSE IF a[2] = 0 THEN a
    ELSE IF b[2] = 0 THEN b
    ELSE FDiv(a[1] * b[2] + b[1] * a[2], a[2] * b[2])

(* a * (1.0f / points) *)
FScale(a, points) ==
    IF points = 0 THEN <<(IF a[2] = 0 THEN a[1] ELSE Sign(a[1])), 0>>
    ELSE IF a[2] = 0 THEN a
    ELSE FDiv(a[1], a[2] * points)

FInt(n) == <<n, 1>>

(* (float)n for an integer sample or iso value n: float has a significand   *)
(* of 24 bits, so n is rounded to the nearest multiple of FloatUlp(|n|),    *)
(* a tie to the multiple with the even significand                          *)
RECURSIVE FloatUlp(_)
FloatUlp(n) == IF n < 2 ^ 24 THEN 1 ELSE 2 * FloatUlp(n \div 2)

ToFloat(n) ==
    LET ulp == FloatUlp(Abs(n))
        q == Abs(n) \div ulp
        r == Abs(n) % ulp
        up == 2 * r > ulp \/ (2 * r = ulp /\ q % 2 = 1)
    IN  Sign(n) * ulp * (IF up THEN q + 1 ELSE q)

(* The twelve edge blocks of CalculateDualPoint: edge k interpolates along *)
(* axis EdgeAxis[k + 1] from the corner at offset EdgeBase[k + 1] to the   *)
(* next corner on that axis; the base offset is what the block adds as 1.0 *)
EdgeBase ==
    << <<0, 0, 0>>, <<1, 0, 0>>, <<0, 0, 1>>, <<0, 0, 0>>,
       <<0, 1, 0>>, <<1, 1, 0>>, <<0, 1, 1>>, <<0, 1, 0>>,
       <<0, 0, 0>>, <<1, 0, 0>>, <<1, 0, 1>>, <<0, 0, 1>> >>

EdgeAxis == <<1, 3, 1, 3, 1, 3, 1, 3, 2, 2, 2, 2>>

EdgeCode(k) == 2 ^ k

Unit(axis) == [i \in 1..3 |-> IF i = axis THEN 1 ELSE 0]

(* the two endpoint samples s0, s1 of cube edge k of a cell *)
EdgeSamples(cell, k) ==
    LET b == EdgeBase[k + 1]
        u == Unit(EdgeAxis[k + 1])
    IN  << Sample(cell[1] + b[1], cell[2] + b[2], cell[3] + b[3]),
           Sample(cell[1] + b[1] + u[1], cell[2] + b[2] + u[2], cell[3] + b[3] + u[3]) >>

(* the grid points whose samples one CalculateDualPoint call reads *)
CalculateDualPointReads(cell, pointCode) ==
    UNION {LET b == EdgeBase[k + 1]
               u == Unit(EdgeAxis[k + 1])
           IN  {<<cell[1] + b[1], cell[2] + b[2], cell[3] + b[3]>>,
                <<cell[1] + b[1] + u[1], cell[2] + b[2] + u[2], cell[3] + b[3] + u[3]>>} :
           k \in {j \in 0..11 : HasEdge(pointCode, EdgeCode(j))}}

(* what the block of edge k adds to p.position *)
EdgeTerm(cell, iso, k) ==
    LET s == EdgeSamples(cell, k)
        t == FDiv(ToFloat(iso) - ToFloat(s[1]), ToFloat(s[2]) - ToFloat(s[1]))
        b == EdgeBase[k + 1]
    IN  [i \in 1..3 |-> IF i = EdgeAxis[k + 1] THEN t ELSE FInt(b[i])]

(* mutant: the blocks of EDGE8..EDGE11 do not count *)
FlaggedEdgesBelow8(pointCode) == {k \in 0..7 : HasEdge(pointCode, EdgeCode(k))}

(* the flagged edges of a point code, and their number (points) *)
FlaggedEdges(pointCode) == {k \in 0..11 : HasEdge(pointCode, EdgeCode(k))}

RECURSIVE SumEdges(_, _, _, _, _)
SumEdges(cell, iso, pointCode, k, p) ==
    IF k = 12 THEN p
    ELSE IF HasEdge(pointCode, EdgeCode(k))
         THEN LET e == EdgeTerm(cell, iso, k)
              IN  SumEdges(cell, iso, pointCode, k + 1, [i \in 1..3 |-> FAdd(p[i], e[i])])
         ELSE SumEdges(cell, iso, pointCode, k + 1, p)

(* Mesher::CalculateDualPoint: the vertex position *)
CalculateDualPoint(cell, iso, pointCode) ==
    LET p == SumEdges(cell, iso, pointCode, 0, [i \in 1..3 |-> FInt(0)])
        points == Cardinality(FlaggedEdges(pointCode))
    IN  [i \in 1..3 |-> FAdd(FInt(cell[i]), FScale(p[i], points))]

---------------------------------------------------------------------------
(* The BuildInternal loops.  A loop position is its rank in the iteration  *)
(* order: z outermost, then y, then x, then the three edge blocks.         *)
(* mutant: the loops stop one cell later on each axis *)
ReducedByOne(d) == <<d[1] - 1, d[2] - 1, d[3] - 1>>

(* reducedX, reducedY, reducedZ *)
Reduced(d) == <<d[1] - 2, d[2] - 2, d[3] - 2>>

LoopEnd ==
    LET r == Reduced(dims)
    IN  IF r[1] <= 0 \/ r[2] <= 0 \/ r[3] <= 0 THEN 0 ELSE 3 * r[1] * r[2] * r[3]

LoopAxis(rank) == (rank % 3) + 1

LoopCell(rank) ==
    LET r == Reduced(dims)
        c == rank \div 3
    IN  <<c % r[1], (c \div r[1]) % r[2], c \div (r[1] * r[2])>>

(* the guard in front of each edge block *)
AxisGuard(cell, axis) ==
    CASE axis = 1 -> cell[3] > 0 /\ cell[2] > 0
      [] axis = 2 -> cell[3] > 0 /\ cell[1] > 0
      [] axis = 3 -> cell[1] > 0 /\ cell[2] > 0

(* the GetStatus call of an edge block *)
StatusAt(iso, cell, axis) ==
    LET u == Unit(axis)
    IN  GetStatus(iso, cell[1], cell[2], cell[3], u[1], u[2], u[3])

(* mutant: no face is built at a cell whose cube code the manifold step replaced *)
CrossingUnlessInverted(iso, rank) ==
    /\ AxisGuard(LoopCell(rank), LoopAxis(rank))
    /\ LET s == StatusAt(iso, LoopCell(rank), LoopAxis(rank))
       IN  s[1] \/ s[2]
    /\ ResolveCubeCode(LoopCell(rank), iso, generateManifold) = GetCellCode(LoopCell(rank), iso)

(* mutant: only an entering edge builds a face *)
CrossingEnteringOnly(iso, rank) ==
    /\ AxisGuard(LoopCell(rank), LoopAxis(rank))
    /\ StatusAt(iso, LoopCell(rank), LoopAxis(rank))[1]

(* an edge block reaches its ConstructFace call *)
Crossing(iso, rank) ==
    /\ AxisGuard(LoopCell(rank), LoopAxis(rank))
    /\ LET s == StatusAt(iso, LoopCell(rank), LoopAxis(rank))
       IN  s[1] \/ s[2]

(* the loops run on from rank: the first position that calls ConstructFace, *)
(* LoopEnd if the loops end first                                          *)
RECURSIVE NextCrossing(_, _)
NextCrossing(iso, rank) ==
    IF rank >= LoopEnd THEN LoopEnd
    ELSE IF Crossing(iso, rank) THEN rank
    ELSE NextCrossing(iso, rank + 1)

(* the grid points whose samples the GetStatus calls of the loop positions *)
(* from..to read                                                           *)
GetStatusReads(from, to) ==
    UNION {LET cell == LoopCell(rank)
               u == Unit(LoopAxis(rank))
           IN  {cell, <<cell[1] + u[1], cell[2] + u[2], cell[3] + u[3]>>} :
           rank \in {r \in from..to : r < LoopEnd /\ AxisGuard(LoopCell(r), LoopAxis(r))}}

(* the cells argument of the ConstructFace call of an edge block *)
FaceCells(cell, axis) ==
    LET x == cell[1]
        y == cell[2]
        z == cell[3]
    IN  CASE axis = 1 -> << <<x, y, z>>, <<x, y, z - 1>>, <<x, y - 1, z - 1>>, <<x, y - 1, z>> >>
          [] axis = 2 -> << <<x, y, z>>, <<x, y, z - 1>>, <<x - 1, y, z - 1>>, <<x - 1, y, z>> >>
          [] axis = 3 -> << <<x, y, z>>, <<x - 1, y, z>>, <<x - 1, y - 1, z>>, <<x, y - 1, z>> >>

(* mutant: the x block lists its edges in another order than its cells *)
FaceEdgesSwapped(axis) ==
    CASE axis = 1 -> <<EDGE0, EDGE4, EDGE6, EDGE2>>
      [] axis = 2 -> <<EDGE8, EDGE11, EDGE10, EDGE9>>
      [] axis = 3 -> <<EDGE3, EDGE1, EDGE5, EDGE7>>

(* the edges argument *)
FaceEdges(axis) ==
    CASE axis = 1 -> <<EDGE0, EDGE2, EDGE6, EDGE4>>
      [] axis = 2 -> <<EDGE8, EDGE11, EDGE10, EDGE9>>
      [] axis = 3 -> <<EDGE3, EDGE1, EDGE5, EDGE7>>

(* mutant: every edge block passes entering *)
FaceCondEntering(status, axis) == status[1]

(* the cond argument: entering for the x block, exiting for the y and z blocks *)
FaceCond(status, axis) == IF axis = 1 THEN status[1] ELSE status[2]

(* mutant: the triangle branch emits one triangle only *)
FaceIndicesOneTriangle(cond, topology, i) ==
    IF cond
    THEN IF topology = Quads THEN <<i[1], i[2], i[3], i[4]>>
         ELSE <<i[1], i[2], i[3]>>
    ELSE IF topology = Quads THEN <<i[1], i[4], i[3], i[2]>>
         ELSE <<i[3], i[2], i[1]>>

(* Mesher::ConstructFace, the indices appended for i0..i3 *)
FaceIndices(cond, topology, i) ==
    IF cond
    THEN IF topology = Quads THEN <<i[1], i[2], i[3], i[4]>>
         ELSE <<i[1], i[2], i[3], i[3], i[4], i[1]>>
    ELSE IF topology = Quads THEN <<i[1], i[4], i[3], i[2]>>
         ELSE <<i[3], i[2], i[1], i[1], i[4], i[3]>>

---------------------------------------------------------------------------
(* The assertions of Build.  int32_t products wrap modulo 2^32; they are   *)
(* computed on 16-bit halves so that no intermediate leaves 32 bits.       *)
MulMod16(u, v) == (((u * (v \div 256)) % 65536) * 256 + u * (v % 256)) % 65536

Mul32(a, b) ==
    LET al == a % 65536
        ah == (a \div 65536) % 65536
        bl == b % 65536
        bh == (b \div 65536) % 65536
        t  == ((al \div 256) * (bl % 256) + (al % 256) * (bl \div 256)) * 256
              + (al % 256) * (bl % 256)
        lo == t % 65536
        carry == (al \div 256) * (bl \div 256) + t \div 65536
        hi == (carry + MulMod16(ah, bl) + MulMod16(al, bh)) % 65536
    IN  IF hi >= 32768 THEN (hi - 65536) * 65536 + lo ELSE hi * 65536 + lo

MaxInt32 == 2147483647

(* a * b does not fit int32_t, for a, b >= 0 *)
Overflows(a, b) == a # 0 /\ b > MaxInt32 \div a

(* dimension[0] * dimension[1] * dimension[2] overflows (undefined behaviour) *)
ProductOverflows(d) ==
    \/ Overflows(d[1], d[2])
    \/ Overflows(d[1] * d[2], d[3])

(* data.size() >= (size_t)(dimension[0] * dimension[1] * dimension[2]) on  *)
(* the wrapped product.  A negative int32_t converts to a size_t above any *)
(* buffer length.                                                          *)
SizeCheck(a) ==
    LET product == Mul32(Mul32(a.dimension[1], a.dimension[2]), a.dimension[3])
    IN  product >= 0 /\ Len(a.data) >= product

(* The outcomes of the third assert.  Signed overflow is undefined: a      *)
(* build either leaves the wrapped product of the multiply instruction or  *)
(* traps on the overflow, which ends the call like a failed assert.        *)
SizeCheckOutcomes(a) ==
    IF ProductOverflows(a.dimension) THEN {SizeCheck(a), FALSE} ELSE {SizeCheck(a)}

(* the first two asserts of Build pass *)
ShapeAssertsPass(a) ==
    /\ ~ (a.dimension[1] < 0 \/ a.dimension[2] < 0 \/ a.dimension[3] < 0)
    /\ a.data # <<>>

(* the outcomes of the three asserts of Build: TRUE is "all pass" *)
AssertOutcomes(a) ==
    IF ShapeAssertsPass(a) THEN SizeCheckOutcomes(a) ELSE {FALSE}

---------------------------------------------------------------------------
(* The calls the caller makes.                                             *)
MaxSpecial == 2     \* samples of a volume that differ from its background
MaxSample == 2      \* sample values are 0..MaxSample
MaxOutside == 2     \* samples below iso around a pair of adjacent cells

Samples == 0..MaxSample

IsoValues == {1}

Volume(d) == d[1] * d[2] * d[3]

Positions(d) == (0..(d[1] - 1)) \X (0..(d[2] - 1)) \X (0..(d[3] - 1))

(* the samples one grid step inside the border, and the eight corners *)
Interior(d) ==
    {p \in Positions(d) : \A i \in 1..3 : p[i] >= 1 /\ p[i] <= d[i] - 2}

Corners(d) == {p \in Positions(d) : \A i \in 1..3 : p[i] \in {0, d[i] - 1}}

(* the samples of the face x = 0 that are not on another face *)
LowFace(d) ==
    {p \in Positions(d) : p[1] = 0 /\ \A i \in 2..3 : p[i] >= 1 /\ p[i] <= d[i] - 2}

Offsets(d, ps) == {gAOn(d, p[1], p[2], p[3]) : p \in ps}

SmallSubsets(S, n) == {T \in SUBSET S : Cardinality(T) <= n}

(* the buffer of extent d that holds sv at the offsets in special, bg elsewhere *)
Buffer(d, bg, special, sv) ==
    [i \in 1..Volume(d) |-> IF (i - 1) \in special THEN sv ELSE bg]

Call(data, dimension, iso, manifold, topology) ==
    [data |-> data, dimension |-> dimension, iso |-> iso,
     generateManifold |-> manifold, topology |-> topology]

(* every call on a volume of extent d whose samples differ from the         *)
(* background at no more than MaxSpecial places of probe                    *)
ProbeCalls(d, probe) ==
    {Call(Buffer(d, bg, special, sv), d, iso, m, t) :
        bg \in Samples, sv \in Samples,
        special \in SmallSubsets(Offsets(d, probe), MaxSpecial),
        iso \in IsoValues, m \in BOOLEAN, t \in {Triangles, Quads}}

(* quad calls on a 5x5x5 volume above iso except for no more than          *)
(* MaxOutside samples among the corners of cell <<1,1,1>> and of the next  *)
(* cell along one axis                                                     *)
PairShape == <<5, 5, 5>>

PairCalls ==
    UNION {{Call(Buffer(PairShape, MaxSample, special, 0), PairShape, 1, m, Quads) :
              special \in SmallSubsets(
                  Offsets(PairShape, CellCorners(<<1, 1, 1>>) \cup CellCorners(next)),
                  MaxOutside),
              m \in BOOLEAN} :
           next \in {<<2, 1, 1>>, <<1, 2, 1>>, <<1, 1, 2>>}}

(* quad calls on a 4x4x5 volume above iso except for any of the corners of  *)
(* cell <<1,1,1>>: the cell takes each of the 256 cube codes               *)
CodeCalls ==
    {Call(Buffer(<<4, 4, 5>>, MaxSample, special, 0), <<4, 4, 5>>, 1, m, Quads) :
        special \in SUBSET Offsets(<<4, 4, 5>>, CellCorners(<<1, 1, 1>>)),
        m \in BOOLEAN}

(* calls of Mesher<int32_t> whose samples and iso are next to 2^24, where   *)
(* neighbouring integers convert to the same float                         *)
WideSamples == {2 ^ 24, 2 ^ 24 + 1, 2 ^ 24 + 2}

WideCalls ==
    {Call(Buffer(<<4, 4, 5>>, bg, special, sv), <<4, 4, 5>>, 2 ^ 24 + 1, m, Quads) :
        bg \in WideSamples, sv \in WideSamples,
        special \in SmallSubsets(Offsets(<<4, 4, 5>>, Interior(<<4, 4, 5>>)), 1),
        m \in BOOLEAN}

(* calls on volumes that are thin on one or two axes: the samples are below *)
(* iso where the coordinates on the axes in stripes add up to an odd        *)
(* number (layers across one axis, checkerboards across two or three)      *)
ThinShapes ==
    {<<2, 4, 4>>, <<4, 2, 4>>, <<4, 4, 2>>, <<1, 4, 4>>, <<3, 3, 5>>, <<3, 5, 3>>,
     <<5, 3, 3>>, <<3, 4, 4>>, <<4, 3, 4>>, <<4, 4, 3>>}

StripedBuffer(d, stripes) ==
    [i \in 1..Volume(d) |->
        LET p == <<(i - 1) % d[1], ((i - 1) \div d[1]) % d[2], (i - 1) \div (d[1] * d[2])>>
        IN  IF ((IF 1 \in stripes THEN p[1] ELSE 0) + (IF 2 \in stripes THEN p[2] ELSE 0)
                + (IF 3 \in stripes THEN p[3] ELSE 0)) % 2 = 1
            THEN 0 ELSE MaxSample]

ThinCalls ==
    {Call(StripedBuffer(d, stripes), d, 1, m, t) :
        d \in ThinShapes, stripes \in (SUBSET (1..3)) \ {{}},
        m \in BOOLEAN, t \in {Triangles, Quads}}

(* calls that break a precondition, or come close to it *)
EdgeCalls ==
    {Call(b, d, 1, FALSE, Quads) :
        b \in {<<>>, <<0>>, <<2>>, <<0, 2>>},
        d \in {<<-1, 4, 4>>, <<4, -1, 4>>, <<4, 4, -2>>, <<0, 0, 0>>, <<1, 1, 1>>,
               <<1, 2, 1>>, <<2, 2, 2>>, <<3, 3, 3>>, <<65536, 65536, 1>>,
               <<65536, 32768, 1>>, <<46341, 46341, 1>>, <<1, 65536, 65537>>}}

(* the calls made on an unused Mesher *)
FirstCalls ==
    ProbeCalls(<<3, 3, 3>>, Corners(<<3, 3, 3>>) \cup Interior(<<3, 3, 3>>))
    \cup ProbeCalls(<<4, 4, 5>>, Interior(<<4, 4, 5>>))
    \cup ProbeCalls(<<4, 4, 5>>, LowFace(<<4, 4, 5>>))
    \cup PairCalls
    \cup CodeCalls
    \cup WideCalls
    \cup ThinCalls
    \cup EdgeCalls

(* the calls that start a sequence of calls on one Mesher *)
SeqCalls ==
    ProbeCalls(<<4, 4, 5>>, {p \in Interior(<<4, 4, 5>>) : p[1] = 1})

(* the same buffer with every sample mirrored in the sample range *)
Mirror(data) == [i \in 1..Len(data) |-> MaxSample - data[i]]

(* what the caller may ask for after a call returned *)
Variants(a) ==
    { a,
      [a EXCEPT !.topology = IF @ = Quads THEN Triangles ELSE Quads],
      [a EXCEPT !.generateManifold = ~ @],
      [a EXCEPT !.data = Mirror(@)] }

---------------------------------------------------------------------------
EmptyMesh == [vertices |-> <<>>, indices |-> <<>>]

NoCall == Call(<<>>, <<0, 0, 0>>, 0, FALSE, Triangles)

NoHist == [origin |-> <<>>, given |-> <<>>, edges |-> <<>>, asked |-> <<>>,
           reads |-> {}]

NoPrev == [valid |-> FALSE, args |-> NoCall, mesh |-> EmptyMesh, edges |-> <<>>,
           origin |-> <<>>]

EmptyMap == [k \in {} |-> 0]

(* A Mesher that has not been used.  dims, volume and generateManifold are *)
(* uninitialised members; Build assigns each before anything reads it.     *)
Init ==
    /\ args = NoCall
    /\ pc = "idle"
    /\ dims = <<0, 0, 0>>
    /\ volume = <<>>
    /\ generateManifold = FALSE
    /\ pointToIndex = EmptyMap
    /\ mesh = EmptyMesh
    /\ loop = 0
    /\ face = <<>>
    /\ hist = NoHist
    /\ prev = NoPrev

(* mutant: BuildInternal does not clear the cache *)
ClearedKeepsAll(p) == p

(* pointToIndex.clear() *)
Cleared(p) == EmptyMap

(* Mesher::Build up to the first loop iteration of BuildInternal, called   *)
(* with arguments a                                                        *)
BuildCall(a) ==
    /\ args' = a
    /\ prev' = IF pc = "returned"
               THEN [valid |-> TRUE, args |-> args, mesh |-> mesh, edges |-> hist.edges,
                     origin |-> hist.origin]
               ELSE prev
    /\ \E pass \in AssertOutcomes(a) :
          IF pass
          THEN /\ volume' = a.data
               /\ dims' = a.dimension
               /\ generateManifold' = a.generateManifold
               /\ mesh' = EmptyMesh
               /\ pointToIndex' = Cleared(pointToIndex)
               /\ loop' = 0
               /\ face' = <<>>
               /\ hist' = NoHist
               /\ pc' = "sweep"
          ELSE /\ pc' = "aborted"
               /\ UNCHANGED <<dims, volume, generateManifold, pointToIndex, mesh,
                              loop, face, hist>>

(* the caller calls Build on the unused Mesher *)
Build ==
    /\ pc = "idle"
    /\ \E a \in FirstCalls : BuildCall(a)

(* the caller starts a sequence of calls on the Mesher *)
BuildFirst ==
    /\ pc = "idle"
    /\ \E a \in SeqCalls : BuildCall(a)

(* the caller calls Build again after a call returned *)
BuildAgain ==
    /\ pc = "returned"
    /\ \E a \in Variants(args) : BuildCall(a)

(* BuildInternal: the loops run to the next ConstructFace call, or to the  *)
(* end, where Build returns the mesh                                       *)
Sweep ==
    /\ pc = "sweep"
    /\ loop' = NextCrossing(args.iso, loop)
    /\ pc' = IF loop' = LoopEnd THEN "returned" ELSE "face"
    /\ hist' = [hist EXCEPT !.reads = @ \cup GetStatusReads(loop, loop')]
    /\ UNCHANGED <<args, dims, volume, generateManifold, pointToIndex, mesh, face, prev>>

(* mutant: a new vertex gets the size of the vertex vector after the append *)
SharedIndexAfterAppend(st, cell, iso, key) ==
    IF key \in DOMAIN st.pointToIndex
    THEN [st EXCEPT !.face = Append(@, st.pointToIndex[key]),
                    !.given = Append(@, <<key, st.pointToIndex[key], TRUE>>)]
    ELSE [st EXCEPT !.vertices = Append(@, CalculateDualPoint(cell, iso, key[2])),
                    !.pointToIndex = [k \in DOMAIN st.pointToIndex \cup {key} |->
                                        IF k = key THEN Len(st.vertices) + 1
                                        ELSE st.pointToIndex[k]],
                    !.face = Append(@, Len(st.vertices) + 1),
                    !.given = Append(@, <<key, Len(st.vertices) + 1, FALSE>>),
                    !.origin = Append(@, key),
                    !.reads = @ \cup CalculateDualPointReads(cell, key[2])]

(* mutant: the cache never hits *)
CacheHitNever(p, key) == FALSE

(* pointToIndex.find(key) != pointToIndex.end() *)
CacheHit(p, key) == key \in DOMAIN p

(* Mesher::GetSharedDualPointIndex for an already computed key, on the      *)
(* running state st of ConstructFace: st.vertices is mesh.vertices,         *)
(* st.pointToIndex the cache, st.face the indices returned so far;          *)
(* st.origin, st.given, st.asked and st.reads are history                    *)
SharedIndex(st, cell, iso, key) ==
    IF CacheHit(st.pointToIndex, key)
    THEN [st EXCEPT !.face = Append(@, st.pointToIndex[key]),
                    !.given = Append(@, <<key, st.pointToIndex[key], TRUE>>)]
    ELSE [st EXCEPT !.vertices = Append(@, CalculateDualPoint(cell, iso, key[2])),
                    !.pointToIndex = [k \in DOMAIN st.pointToIndex \cup {key} |->
                                        IF k = key THEN Len(st.vertices)
                                        ELSE st.pointToIndex[k]],
                    !.face = Append(@, Len(st.vertices)),
                    !.given = Append(@, <<key, Len(st.vertices), FALSE>>),
                    !.origin = Append(@, key),
                    !.reads = @ \cup CalculateDualPointReads(cell, key[2])]

(* the DualPointKey of a request *)
DualPointKey(cell, iso, edge) ==
    <<gA(cell[1], cell[2], cell[3]), GetDualPointCode(cell, iso, edge)>>

(* the states after Mesher::GetSharedDualPointIndex (one state: the call is *)
(* deterministic)                                                           *)
GetSharedDualPointIndex(st, cell, iso, edge) ==
    {SharedIndex([st EXCEPT
                     !.asked = Append(@, <<cell, edge,
                                           ResolveCubeCode(cell, iso, generateManifold)>>),
                     !.reads = @ \cup GetDualPointCodeReads(cell, iso)],
                 cell, iso, key) : key \in {DualPointKey(cell, iso, edge)}}

(* Mesher::ConstructFace called by the edge block at the loop position: the *)
(* four GetSharedDualPointIndex calls in order, then the indices            *)
ConstructFace ==
    /\ pc = "face"
    /\ LET cell  == LoopCell(loop)
           axis  == LoopAxis(loop)
           cond  == FaceCond(StatusAt(args.iso, cell, axis), axis)
           cells == FaceCells(cell, axis)
           edges == FaceEdges(axis)
           st0 == [vertices |-> mesh.vertices, pointToIndex |-> pointToIndex,
                   face |-> <<>>, origin |-> hist.origin, given |-> hist.given,
                   asked |-> hist.asked, reads |-> hist.reads]
       IN  \E st1 \in GetSharedDualPointIndex(st0, cells[1], args.iso, edges[1]) :
           \E st2 \in GetSharedDualPointIndex(st1, cells[2], args.iso, edges[2]) :
           \E st3 \in GetSharedDualPointIndex(st2, cells[3], args.iso, edges[3]) :
           \E st4 \in GetSharedDualPointIndex(st3, cells[4], args.iso, edges[4]) :
              /\ mesh' = [vertices |-> st4.vertices,
                          indices |-> mesh.indices \o
                                      FaceIndices(cond, args.topology, st4.face)]
              /\ pointToIndex' = st4.pointToIndex
              /\ face' = st4.face
              /\ hist' = [origin |-> st4.origin, given |-> st4.given,
                          edges |-> Append(hist.edges, loop),
                          asked |-> st4.asked, reads |-> st4.reads]
    /\ loop' = loop + 1
    /\ pc' = "sweep"
    /\ UNCHANGED <<args, dims, volume, generateManifold, prev>>

(* one Build call on an unused Mesher *)
Next == Build \/ Sweep \/ ConstructFace

Spec == Init /\ [][Next]_vars

(* Build calls one after another on the same Mesher *)
NextSeq == BuildFirst \/ BuildAgain \/ Sweep \/ ConstructFace

SpecSeq == Init /\ [][NextSeq]_vars

---------------------------------------------------------------------------
(* Properties.                                                             *)
InCall == pc \in {"sweep", "face", "returned"}

Last(s) == s[Len(s)]

RequestedKeys == {hist.given[i][1] : i \in 1..Len(hist.given)}

(* every sample of the buffer is on the same side of iso *)
Uniform(a) ==
    \/ \A i \in 1..Len(a.data) : a.data[i] >= a.iso
    \/ \A i \in 1..Len(a.data) : a.data[i] < a.iso

(* C1: a Build call on a volume whose samples are all >= iso, or all < iso, *)
(* never reaches ConstructFace and returns a mesh with no vertex and no     *)
(* index, whatever the manifold flag and the topology.                      *)
C1_UniformVolumeEmptyMesh ==
    (InCall /\ Uniform(args)) => (pc # "face" /\ mesh = EmptyMesh)

(* a swept 4x4x5 volume, all >= iso, whose samples are not all equal *)
C1_Witness ==
    /\ pc = "returned"
    /\ Uniform(args)
    /\ args.dimension = <<4, 4, 5>>
    /\ \E i \in 1..Len(args.data) : args.data[i] # args.data[1]
    /\ \A i \in 1..Len(args.data) : args.data[i] >= args.iso

(* C2: in the returned mesh no two vertices come from the same (cell id,    *)
(* point code) key: there are as many vertices as distinct keys requested   *)
(* during the sweep, and requests of the same key got the same index.       *)
C2_UniqueVertexPerKey ==
    pc = "returned" =>
        /\ Len(mesh.vertices) = Cardinality(RequestedKeys)
        /\ Len(hist.origin) = Len(mesh.vertices)
        /\ \A i, j \in 1..Len(hist.origin) : hist.origin[i] = hist.origin[j] => i = j
        /\ \A i, j \in 1..Len(hist.given) :
              hist.given[i][1] = hist.given[j][1] => hist.given[i][2] = hist.given[j][2]

(* a returned mesh with a vertex that several faces share *)
C2_Witness ==
    /\ pc = "returned"
    /\ Len(mesh.vertices) >= 4
    /\ \E i \in 1..Len(hist.given) : hist.given[i][3]

SameButTopology(a, b) ==
    /\ a.data = b.data
    /\ a.dimension = b.dimension
    /\ a.iso = b.iso
    /\ a.generateManifold = b.generateManifold
    /\ a.topology # b.topology

(* C3: the Quads index count is a multiple of 4, the Triangles index count  *)
(* a multiple of 3, and for the same volume, iso and manifold flag the      *)
(* Triangles count is 1.5 times the Quads count.                            *)
C3_IndexCounts ==
    pc = "returned" =>
        /\ args.topology = Quads => Len(mesh.indices) % 4 = 0
        /\ args.topology = Triangles => Len(mesh.indices) % 3 = 0
        /\ (prev.valid /\ SameButTopology(prev.args, args)) =>
              IF args.topology = Triangles
              THEN 2 * Len(mesh.indices) = 3 * Len(prev.mesh.indices)
              ELSE 3 * Len(mesh.indices) = 2 * Len(prev.mesh.indices)

(* a Triangles call after the Quads call on the same volume, with faces *)
C3_Witness ==
    /\ pc = "returned"
    /\ prev.valid
    /\ SameButTopology(prev.args, args)
    /\ args.topology = Triangles
    /\ Len(prev.mesh.indices) >= 8

SameButManifold(a, b) ==
    /\ a.data = b.data
    /\ a.dimension = b.dimension
    /\ a.iso = b.iso
    /\ a.topology = b.topology
    /\ a.generateManifold # b.generateManifold

(* C4: for the same volume, iso and topology, the calls with and without    *)
(* the manifold flag build a face at the same grid edges in the same order  *)
(* and return equally many indices.                                         *)
C4_ManifoldKeepsFaces ==
    (pc = "returned" /\ prev.valid /\ SameButManifold(prev.args, args)) =>
        /\ hist.edges = prev.edges
        /\ Len(mesh.indices) = Len(prev.mesh.indices)

(* the two calls on a volume where the flag changes the vertices *)
C4_Witness ==
    /\ pc = "returned"
    /\ prev.valid
    /\ SameButManifold(prev.args, args)
    /\ hist.edges # <<>>
    /\ hist.origin # prev.origin

(* the quads of an index sequence, and the undirected edges of a quad *)
QuadsOf(indices) ==
    [k \in 1..(Len(indices) \div 4) |-> SubSeq(indices, 4 * k - 3, 4 * k)]

QuadEdges(q) == {{q[1], q[2]}, {q[2], q[3]}, {q[3], q[4]}, {q[4], q[1]}}

FacesAt(quads, e) == Cardinality({k \in 1..Len(quads) : e \in QuadEdges(quads[k])})

EdgeManifold(indices) ==
    LET quads == QuadsOf(indices)
    IN  \A k \in 1..Len(quads) : \A e \in QuadEdges(quads[k]) : FacesAt(quads, e) <= 2

(* C5: with the manifold flag, every undirected edge of the returned quad   *)
(* mesh belongs to at most two quads.                                       *)
C5_ManifoldQuadMesh ==
    (pc = "returned" /\ generateManifold /\ args.topology = Quads) =>
        EdgeManifold(mesh.indices)

Inverted(cell) ==
    ResolveCubeCode(cell, args.iso, TRUE) # GetCellCode(cell, args.iso)

(* a manifold call where two adjacent cells were both inverted and the four *)
(* grid edges of their common face each built a quad                        *)
C5_Witness ==
    /\ pc = "returned"
    /\ generateManifold
    /\ args.topology = Quads
    /\ args.dimension = PairShape
    /\ Inverted(<<1, 1, 1>>)
    /\ Inverted(<<2, 1, 1>>)
    /\ \E e \in {{a, b} : a, b \in 0..(Len(mesh.vertices) - 1)} :
          FacesAt(QuadsOf(mesh.indices), e) = 2
    /\ Len(hist.edges) >= 4

(* A 3x3x3 two-valued volume in which one corner sample of the volume is    *)
(* the low value 0 and the other 26 samples are one high value, with iso    *)
(* strictly between the two (the samples {0,1} and iso 0.5 of the example,  *)
(* in integers).                                                            *)
SingleCornerVolume(a) ==
    /\ a.dimension = <<3, 3, 3>>
    /\ Len(a.data) = 27
    /\ \E c \in Offsets(a.dimension, Corners(a.dimension)) :
          /\ a.data[c + 1] = 0
          /\ 0 < a.iso
          /\ \E hi \in Samples :
                /\ hi > a.iso
                /\ \A i \in 1..27 : i # c + 1 => a.data[i] = hi

(* C6 as claimed: on a 3x3x3 volume with one corner sample below iso, Build *)
(* produces a non-empty mesh.                                               *)
C6_Original ==
    (pc = "returned" /\ SingleCornerVolume(args)) =>
        (mesh.vertices # <<>> /\ mesh.indices # <<>>)

(* C6 amended: on a 3x3x3 volume Build returns the empty mesh, for the      *)
(* single-corner volume as for any other samples: the loops visit the one   *)
(* cell <<0,0,0>>, where no edge block passes its guard.                    *)
C6_SmallestVolumeEmptyMesh ==
    (InCall /\ args.dimension = <<3, 3, 3>>) => (pc # "face" /\ mesh = EmptyMesh)

(* the single-corner call has returned *)
C6_Witness == pc = "returned" /\ SingleCornerVolume(args) /\ mesh = EmptyMesh

(* C7: a call with the same volume, dimensions, iso, manifold flag and      *)
(* topology as the call before it returns the same vertex sequence and the  *)
(* same index sequence.                                                     *)
C7_Deterministic ==
    (pc = "returned" /\ prev.valid /\ prev.args = args) => mesh = prev.mesh

(* a repeated call that returned a mesh with faces *)
C7_Witness ==
    /\ pc = "returned"
    /\ prev.valid
    /\ prev.args = args
    /\ Len(mesh.vertices) >= 4
    /\ mesh.indices # <<>>

(* the buffer is shorter than dimX * dimY * dimZ (dimensions >= 0) *)
TooShort(a) ==
    LET n == Len(a.data)
        d == a.dimension
    IN  /\ d[1] >= 1 /\ d[2] >= 1 /\ d[3] >= 1
        /\ (d[1] > n \/ d[2] > n \/ d[3] > n
            \/ d[1] * d[2] > n \/ d[1] * d[2] * d[3] > n)

PreconditionBroken(a) ==
    \/ a.dimension[1] < 0 \/ a.dimension[2] < 0 \/ a.dimension[3] < 0
    \/ a.data = <<>>
    \/ TooShort(a)

(* C8: a call with a negative dimension, an empty buffer or a buffer        *)
(* shorter than dimX * dimY * dimZ fails at entry: it never sweeps and      *)
(* never returns a mesh.                                                    *)
C8_BrokenPreconditionAborts ==
    (pc # "idle" /\ PreconditionBroken(args)) => pc = "aborted"

(* C9: each call of a sequence of calls on one Mesher works on a cache of   *)
(* its own: every cache entry was inserted by this call, a request hits     *)
(* only what this call inserted before, and the vertices are those of this  *)
(* call's keys, as on an unused Mesher.                                     *)
C9_CacheOfThisCallOnly ==
    InCall =>
        /\ DOMAIN pointToIndex = {hist.origin[i] : i \in 1..Len(hist.origin)}
        /\ \A i \in 1..Len(hist.origin) : pointToIndex[hist.origin[i]] = i - 1
        /\ Len(mesh.vertices) = Len(hist.origin)
        /\ \A i \in 1..Len(hist.given) :
              hist.given[i][3] =>
                 \E j \in 1..(i - 1) :
                    hist.given[j] = <<hist.given[i][1], hist.given[i][2], FALSE>>

(* a call on another volume that asked for a key of the call before it and  *)
(* gave it another index                                                    *)
C9_Witness ==
    /\ pc = "returned"
    /\ prev.valid
    /\ prev.args.data # args.data
    /\ \E i \in 1..Len(hist.origin) : \E j \in 1..Len(prev.origin) :
          hist.origin[i] = prev.origin[j] /\ i # j

(* the face ConstructFace has just appended: the grid edge, whether it is   *)
(* entering, and the appended indices                                       *)
JustBuilt == pc = "sweep" /\ hist.edges # <<>>

BuiltAxis == LoopAxis(Last(hist.edges))

BuiltEntering ==
    LET cell == LoopCell(Last(hist.edges))
        u == Unit(BuiltAxis)
    IN  /\ Sample(cell[1], cell[2], cell[3]) >= args.iso
        /\ Sample(cell[1] + u[1], cell[2] + u[2], cell[3] + u[3]) < args.iso

BuiltIndices ==
    LET n == IF args.topology = Quads THEN 4 ELSE 6
    IN  SubSeq(mesh.indices, Len(mesh.indices) - n + 1, Len(mesh.indices))

(* the given order, and the reversed order, of i0..i3 = face *)
GivenOrder ==
    IF args.topology = Quads THEN <<face[1], face[2], face[3], face[4]>>
    ELSE <<face[1], face[2], face[3], face[3], face[4], face[1]>>

ReversedOrder ==
    IF args.topology = Quads THEN <<face[1], face[4], face[3], face[2]>>
    ELSE <<face[3], face[2], face[1], face[1], face[4], face[3]>>

(* C10 as claimed: on each of the three axes an entering crossing emits the *)
(* given order and an exiting crossing the reversed order.                  *)
C10_Original ==
    JustBuilt => BuiltIndices = IF BuiltEntering THEN GivenOrder ELSE ReversedOrder

(* C10 amended: that holds for a crossing on the x axis; on the y and the z *)
(* axis an exiting crossing emits the given order and an entering crossing  *)
(* the reversed order.                                                      *)
C10_WindingPerAxis ==
    JustBuilt =>
        BuiltIndices = IF BuiltEntering = (BuiltAxis = 1) THEN GivenOrder
                       ELSE ReversedOrder

(* faces just built on the y and on the z axis, entering *)
C10_Witness ==
    /\ JustBuilt
    /\ BuiltAxis = 2
    /\ BuiltEntering
    /\ args.topology = Triangles
    /\ BuiltIndices = <<face[3], face[2], face[1], face[1], face[4], face[3]>>
    /\ Cardinality({face[i] : i \in 1..4}) = 4

(* the calls of C8 that do abort: every broken precondition except a buffer *)
(* that is too short for dimensions whose int32_t product overflows         *)
C8_AbortsUnlessProductOverflows ==
    (pc # "idle" /\ PreconditionBroken(args)
       /\ (ShapeAssertsPass(args) => ~ ProductOverflows(args.dimension)))
    => pc = "aborted"

(* a call with a too short buffer that was let through and returned *)
C8_LetThrough == pc = "returned" /\ TooShort(args) /\ mesh = EmptyMesh

---------------------------------------------------------------------------
(* the sample of the caller's buffer at grid point p *)
SampleOf(a, p) == a.data[gAOn(a.dimension, p[1], p[2], p[3]) + 1]

(* the grid edges <<p, axis>>, from p to p + unit(axis), of the volume of   *)
(* call a that qualify for a face                                           *)
QualifyingEdges(a) ==
    LET d == a.dimension
    IN  IF \E i \in 1..3 : d[i] < 3 THEN {}
        ELSE {e \in Positions(d) \X (1..3) :
                LET p == e[1]
                    q == [p EXCEPT ![e[2]] = @ + 1]
                IN  /\ \A i \in 1..3 :
                          /\ (IF i = e[2] THEN 0 ELSE 1) <= p[i]
                          /\ p[i] <= d[i] - 3
                    /\ (SampleOf(a, p) >= a.iso) # (SampleOf(a, q) >= a.iso)}

(* the grid edges at which the call has built a face *)
BuiltEdges ==
    {<<LoopCell(hist.edges[i]), LoopAxis(hist.edges[i])>> : i \in 1..Len(hist.edges)}

(* the four cells that share the grid edge from p along axis *)
CellsSharing(p, axis) ==
    {c \in CellCorners(<<p[1] - 1, p[2] - 1, p[3] - 1>>) : c[axis] = p[axis]}

(* cube edge code edge of cell is the grid edge from p along axis *)
EdgeCoincides(cell, edge, p, axis) ==
    \E k \in 0..11 :
        /\ EdgeCode(k) = edge
        /\ EdgeAxis[k + 1] = axis
        /\ \A i \in 1..3 : cell[i] + EdgeBase[k + 1][i] = p[i]

(* the four requests of the i-th face *)
RequestsOf(i) == {hist.asked[4 * (i - 1) + j] : j \in 1..4}

(* C11: a returned call has built exactly one face at each qualifying grid  *)
(* edge (in range on its axis, one step inside on the two other axes, with  *)
(* its two samples on opposite sides of iso) and no other face, and the     *)
(* four requests of a face went to the four cells sharing its edge, each    *)
(* for the cube edge of that cell that is this grid edge.                   *)
C11_OneFacePerQualifyingEdge ==
    pc = "returned" =>
        /\ BuiltEdges = QualifyingEdges(args)
        /\ Cardinality(BuiltEdges) = Len(hist.edges)
        /\ Len(mesh.indices) = (IF args.topology = Quads THEN 4 ELSE 6) * Len(hist.edges)
        /\ Len(hist.asked) = 4 * Len(hist.edges)
        /\ \A i \in 1..Len(hist.edges) :
              LET p == LoopCell(hist.edges[i])
                  axis == LoopAxis(hist.edges[i])
              IN  /\ {r[1] : r \in RequestsOf(i)} = CellsSharing(p, axis)
                  /\ \A r \in RequestsOf(i) : EdgeCoincides(r[1], r[2], p, axis)

(* a returned call that built a face at a qualifying edge and none at a    *)
(* sign-changing edge on the border of the volume                           *)
C11_Witness ==
    /\ pc = "returned"
    /\ <<<<0, 1, 1>>, 1>> \in BuiltEdges
    /\ Len(hist.edges) >= 2
    /\ (SampleOf(args, <<0, 1, 0>>) >= args.iso) # (SampleOf(args, <<0, 1, 1>>) >= args.iso)
    /\ <<<<0, 1, 0>>, 3>> \notin BuiltEdges

(* a cube code is ambiguous in the table problematicConfigs *)
Ambiguous(code) == problematicConfigs[code + 1] # 255

(* the neighbour cell one step along the axis and sign that the table gives *)
(* for an ambiguous cube code                                               *)
TableNeighbor(cell, code) ==
    LET axis == (problematicConfigs[code + 1] \div 2) + 1
        step == IF problematicConfigs[code + 1] % 2 = 1 THEN 1 ELSE -1
    IN  [cell EXCEPT ![axis] = @ + step]

(* the four conditions under which the lookup of a cell uses the complement *)
ShouldInvert(cell) ==
    LET raw == GetCellCode(cell, args.iso)
        axis == (problematicConfigs[raw + 1] \div 2) + 1
        neighbor == TableNeighbor(cell, raw)
    IN  /\ args.generateManifold
        /\ Ambiguous(raw)
        /\ neighbor[axis] \in 0..(args.dimension[axis] - 2)
        /\ Ambiguous(GetCellCode(neighbor, args.iso))

(* C12: the cube code used for the lookup of a request is the complement of *)
(* the raw code of its cell iff the manifold flag is set, the raw code is   *)
(* ambiguous, the neighbour the table points at has its coordinate on that  *)
(* axis in 0..dim-2 and the neighbour's raw code is ambiguous; otherwise it *)
(* is the raw code.                                                         *)
C12_InvertedIffAmbiguousPair ==
    pc = "returned" =>
        \A i \in 1..Len(hist.asked) :
            hist.asked[i][3] = IF ShouldInvert(hist.asked[i][1])
                               THEN 255 - GetCellCode(hist.asked[i][1], args.iso)
                               ELSE GetCellCode(hist.asked[i][1], args.iso)

(* a manifold call that used the complement for a cell of a 4x4x5 volume   *)
C12_Witness ==
    /\ pc = "returned"
    /\ args.generateManifold
    /\ args.dimension = <<4, 4, 5>>
    /\ \E i \in 1..Len(hist.asked) :
          hist.asked[i][3] = 255 - GetCellCode(hist.asked[i][1], args.iso)

(* an ambiguous cell on the border whose table neighbour is outside *)
C12_NeighborOutside ==
    /\ pc = "returned"
    /\ args.generateManifold
    /\ \E i \in 1..Len(hist.asked) :
          /\ Ambiguous(GetCellCode(hist.asked[i][1], args.iso))
          /\ \E k \in 1..3 : TableNeighbor(hist.asked[i][1],
                                           GetCellCode(hist.asked[i][1], args.iso))[k] < 0

(* the positions in the request log of the requests of the ConstructFace    *)
(* call that has just ended; each request is among them once                *)
NewRequests ==
    IF pc = "sweep" /\ hist.edges # <<>>
    THEN (Len(hist.given) - 3)..Len(hist.given)
    ELSE {}

(* the bit of a cube corner in a cube code (the weights of GetCellCode) *)
CornerBit(p) == 2 ^ (p[1] + 2 * p[2] + 4 * p[3])

(* the two corners of cube edge k are on opposite sides in a cube code *)
EdgeCrossed(code, k) ==
    HasEdge(code, CornerBit(EdgeBase[k + 1]))
        # HasEdge(code, CornerBit([i \in 1..3 |-> EdgeBase[k + 1][i] + Unit(EdgeAxis[k + 1])[i]]))

(* C13: the row scan of GetDualPointCode never falls through to 0.  For     *)
(* every request made, the row of the cube code used (raw or complement)    *)
(* holds a mask with the requested edge, and that mask is the point code of *)
(* the key; in the table, every row holds a mask for each edge of the cube  *)
(* whose two corners its code puts on opposite sides.                       *)
C13_LocatorFindsMask ==
    /\ pc = "idle" =>
          \A code \in 0..255 : \A k \in 0..11 :
              EdgeCrossed(code, k) => HasEdge(FirstMask(code, EdgeCode(k)), EdgeCode(k))
    /\ InCall =>
          /\ Len(hist.given) = Len(hist.asked)
          /\ \A i \in NewRequests :
                /\ hist.given[i][1][2] # 0
                /\ hist.given[i][1][2] = FirstMask(hist.asked[i][3], hist.asked[i][2])
                /\ HasEdge(hist.given[i][1][2], hist.asked[i][2])
                /\ \E k \in 0..11 : /\ EdgeCode(k) = hist.asked[i][2]
                                    /\ EdgeCrossed(hist.asked[i][3], k)

(* a returned call one of whose requests used a complemented cube code and  *)
(* got a mask other than the first of its row                               *)
C13_Witness ==
    /\ pc = "returned"
    /\ \E i \in 1..Len(hist.asked) :
          /\ hist.asked[i][3] # GetCellCode(hist.asked[i][1], args.iso)
          /\ dualPointsList[hist.asked[i][3] + 1][2] # 0
          /\ hist.given[i][1][2] # dualPointsList[hist.asked[i][3] + 1][1]

(* the number of flagged cube edges of the point code of the i-th request   *)
(* (points in CalculateDualPoint)                                           *)
PointsOf(i) == Cardinality(FlaggedEdges(hist.given[i][1][2]))

(* C14 as claimed: every point code passed to CalculateDualPoint has        *)
(* between 1 and 4 flagged edges.                                           *)
C14_Original ==
    InCall =>
        \A i \in NewRequests :
            ~ hist.given[i][3] => (1 <= PointsOf(i) /\ PointsOf(i) <= 4)

(* C14 amended: every point code passed to CalculateDualPoint has between   *)
(* 3 and 7 flagged edges, as has every non-zero mask of dualPointsList.     *)
C14_PointCount ==
    /\ pc = "idle" =>
          \A code \in 0..255 : \A j \in 1..4 :
              dualPointsList[code + 1][j] # 0 =>
                  Cardinality(FlaggedEdges(dualPointsList[code + 1][j])) \in 3..7
    /\ InCall =>
          \A i \in NewRequests :
              ~ hist.given[i][3] =>
                  /\ PointsOf(i) \in 3..7
                  /\ Len(mesh.vertices) > hist.given[i][2]

(* a returned call that computed vertices from 3 and from 7 edges *)
C14_Witness ==
    /\ pc = "returned"
    /\ \E i, j \in 1..Len(hist.given) :
          /\ ~ hist.given[i][3] /\ PointsOf(i) = 7
          /\ ~ hist.given[j][3] /\ PointsOf(j) = 3

(* the number of requests before the i-th that missed the cache *)
MissesBefore(i) == Cardinality({j \in 1..(i - 1) : ~ hist.given[j][3]})

(* the cache and the vertex sequence after the requests made so far *)
CacheOneToOne ==
    /\ DOMAIN pointToIndex = RequestedKeys
    /\ {pointToIndex[k] : k \in DOMAIN pointToIndex} = 0..(Len(mesh.vertices) - 1)
    /\ Cardinality(DOMAIN pointToIndex) = Len(mesh.vertices)
    /\ Len(mesh.vertices) = Len(hist.origin)
    /\ \A i \in NewRequests :
          LET key == hist.given[i][1]
              earlier == {j \in 1..(i - 1) : hist.given[j][1] = key}
          IN  /\ hist.given[i][3] = (earlier # {})
              /\ hist.given[i][2] = pointToIndex[key]
              /\ ~ hist.given[i][3] =>
                    /\ hist.given[i][2] = MissesBefore(i)
                    /\ hist.origin[hist.given[i][2] + 1] = key

(* a step of the call keeps every cache entry and every vertex *)
CacheKept ==
    /\ \A k \in DOMAIN pointToIndex :
          k \in DOMAIN pointToIndex' /\ pointToIndex'[k] = pointToIndex[k]
    /\ Len(mesh'.vertices) >= Len(mesh.vertices)
    /\ SubSeq(mesh'.vertices, 1, Len(mesh.vertices)) = mesh.vertices
    /\ Len(mesh'.vertices) - Len(mesh.vertices)
          = Cardinality(DOMAIN pointToIndex') - Cardinality(DOMAIN pointToIndex)

(* C15: through every step of a call the cache maps the keys requested so   *)
(* far one-to-one onto 0..(vertex count - 1): a request that misses gets    *)
(* the vertex count before it as index and adds one entry and one vertex,   *)
(* a request that hits gets the recorded index and adds nothing, no entry   *)
(* is changed or removed, and vertex i was computed for the i-th distinct   *)
(* key in request order.                                                    *)
C15_CacheOneToOne ==
    [][ /\ pc \in {"sweep", "face"} => CacheKept
        /\ pc' \in {"sweep", "face", "returned"} => CacheOneToOne' ]_vars

(* a face whose four requests were hits and misses *)
C15_Witness ==
    /\ pc = "sweep"
    /\ Len(hist.given) >= 12
    /\ \E i, j \in (Len(hist.given) - 3)..Len(hist.given) :
          /\ i < j
          /\ hist.given[i][3]
          /\ ~ hist.given[j][3]
          /\ hist.given[j][2] = Len(mesh.vertices) - 1

(* C16: when a Build call has returned, pointToIndex holds no entry of the  *)
(* finished call.                                                           *)
C16_CacheDiscardedAtReturn ==
    pc = "returned" => pointToIndex = EmptyMap

(* the entries of a finished call stay in the Mesher until BuildInternal of *)
(* the next call clears them                                                *)
C16_CacheKeptUntilNextCall ==
    /\ pc = "returned" => DOMAIN pointToIndex = RequestedKeys
    /\ (pc = "sweep" /\ hist.given = <<>>) => pointToIndex = EmptyMap

(* grid point p is inside the volume of call a, and so is its offset in the *)
(* buffer                                                                   *)
InGrid(a, p) ==
    /\ \A i \in 1..3 : 0 <= p[i] /\ p[i] < a.dimension[i]
    /\ gAOn(a.dimension, p[1], p[2], p[3]) < Len(a.data)

(* C17: in a call that satisfies the preconditions, every sample read by    *)
(* GetStatus, by GetCellCode for a requested cell or for the neighbour of   *)
(* the manifold step, and by CalculateDualPoint is at a grid point inside   *)
(* the volume, whose offset is inside the buffer.                           *)
C17_ReadsInBounds ==
    (InCall /\ ~ PreconditionBroken(args)) =>
        \A p \in hist.reads : InGrid(args, p)

(* a manifold call that read samples on the first and on the last layer of  *)
(* an axis, the last for the neighbour cell of the manifold step            *)
C17_Witness ==
    /\ pc = "returned"
    /\ args.generateManifold
    /\ \E i \in 1..3 : \E p, q \in hist.reads :
          p[i] = 0 /\ q[i] = args.dimension[i] - 1
    /\ \E j \in 1..Len(hist.asked) : ShouldInvert(hist.asked[j][1])

(* C18: for non-negative dimensions and a non-empty buffer, the size check  *)
(* of Build accepts the call iff the buffer holds at least dimX*dimY*dimZ   *)
(* samples.                                                                 *)
C18_SizeCheckExact ==
    (pc # "idle" /\ ShapeAssertsPass(args)) => ((pc # "aborted") <=> ~ TooShort(args))

(* the size check is exact when the int32_t product does not overflow, and  *)
(* never rejects a buffer that is long enough                               *)
C18_ExactUnlessProductOverflows ==
    (pc # "idle" /\ ShapeAssertsPass(args)) =>
        /\ ~ ProductOverflows(args.dimension) => ((pc # "aborted") <=> ~ TooShort(args))
        /\ ~ TooShort(args) => pc # "aborted"

(* a call rejected by the size check alone *)
C18_Rejected ==
    pc = "aborted" /\ ShapeAssertsPass(args) /\ ~ ProductOverflows(args.dimension)

(* C19: after every face emission every index of the index sequence is      *)
(* smaller than the vertex count, and the four vertex indices of the face   *)
(* are pairwise distinct, as are the linearized ids of its four cells.      *)
C19_IndicesValidAndDistinct ==
    JustBuilt =>
        /\ \A i \in 1..Len(mesh.indices) :
              0 <= mesh.indices[i] /\ mesh.indices[i] < Len(mesh.vertices)
        /\ Len(face) = 4
        /\ Cardinality({face[i] : i \in 1..4}) = 4
        /\ {BuiltIndices[i] : i \in 1..Len(BuiltIndices)} = {face[i] : i \in 1..4}
        /\ Cardinality({hist.given[i][1][1] :
                           i \in (Len(hist.given) - 3)..Len(hist.given)}) = 4

(* a face all of whose vertices were already there, and one that added its  *)
(* four vertices, on a mesh of several faces                                *)
C19_Witness ==
    /\ JustBuilt
    /\ Len(hist.edges) >= 3
    /\ \A i \in (Len(hist.given) - 3)..Len(hist.given) : hist.given[i][3]
    /\ \A i \in 1..4 : ~ hist.given[i][3]

(* the direction code of the opposite face *)
OppositeDirection(direction) ==
    IF direction % 2 = 1 THEN direction - 1 ELSE direction + 1

(* cube codes A and B of two cells, B next to A in the given direction,     *)
(* agree on the four corners of their common face                           *)
AgreeOnFace(A, B, direction) ==
    \A p \in {c \in CellCorners(<<0, 0, 0>>) : c[(direction \div 2) + 1] = direction % 2} :
        HasEdge(A, CornerBit(p))
            = HasEdge(B, CornerBit([p EXCEPT ![(direction \div 2) + 1] = 1 - @]))

(* the cells of the volume of the current call *)
Cells ==
    {c \in Positions(args.dimension) : \A i \in 1..3 : c[i] <= args.dimension[i] - 2}

(* C20: for cube codes A and B that agree on the four corners of the face   *)
(* of A in A's table direction, if both are ambiguous then the table        *)
(* direction of B is the opposite one (it points back at A); and in a       *)
(* volume, an ambiguous cell A whose table neighbour B is in range is       *)
(* inverted iff B is inverted.                                              *)
C20_ResolverSymmetric ==
    /\ pc = "idle" =>
          \A A, B \in 0..255 :
              (Ambiguous(A) /\ Ambiguous(B) /\ AgreeOnFace(A, B, problematicConfigs[A + 1]))
                  => problematicConfigs[B + 1] = OppositeDirection(problematicConfigs[A + 1])
    /\ (pc = "returned" /\ generateManifold /\ ~ PreconditionBroken(args)) =>
          \A A \in Cells :
              LET B == TableNeighbor(A, GetCellCode(A, args.iso))
              IN  (Ambiguous(GetCellCode(A, args.iso)) /\ B \in Cells) =>
                     /\ AgreeOnFace(GetCellCode(A, args.iso), GetCellCode(B, args.iso),
                                    problematicConfigs[GetCellCode(A, args.iso) + 1])
                     /\ Ambiguous(GetCellCode(B, args.iso)) =>
                            TableNeighbor(B, GetCellCode(B, args.iso)) = A
                     /\ Inverted(A) <=> Inverted(B)
                     /\ Inverted(A) <=> Ambiguous(GetCellCode(B, args.iso))

(* a manifold call with two cells, one above the other, that point at each  *)
(* other and are both inverted                                              *)
C20_Witness ==
    /\ pc = "returned"
    /\ generateManifold
    /\ args.dimension = PairShape
    /\ Inverted(<<1, 1, 1>>)
    /\ Inverted(<<1, 1, 2>>)
    /\ TableNeighbor(<<1, 1, 2>>, GetCellCode(<<1, 1, 2>>, args.iso)) = <<1, 1, 1>>
    /\ TableNeighbor(<<1, 1, 1>>, GetCellCode(<<1, 1, 1>>, args.iso)) = <<1, 1, 2>>

(* a manifold call with an ambiguous cell in range of an unambiguous table  *)
(* neighbour, neither inverted                                              *)
C20_OneSided ==
    /\ pc = "returned"
    /\ generateManifold
    /\ \E A \in Cells :
          /\ Ambiguous(GetCellCode(A, args.iso))
          /\ TableNeighbor(A, GetCellCode(A, args.iso)) \in Cells
          /\ ~ Inverted(A)

(* the cell and the point code of the i-th request, and the samples s0, s1  *)
(* of cube edge k of that cell                                              *)
SamplesOf(i, k) == EdgeSamples(hist.asked[i][1], k)

(* the denominator of the interpolation of cube edge k for the i-th request *)
DenominatorOf(i, k) == ToFloat(SamplesOf(i, k)[2]) - ToFloat(SamplesOf(i, k)[1])

(* C21: every cube edge flagged in a point code passed to                   *)
(* CalculateDualPoint joins two corners whose samples are on opposite sides *)
(* of iso, so the two samples differ and the denominator of the             *)
(* interpolation, (float)s1 - (float)s0, is not zero.                       *)
C21_DenominatorNeverZero ==
    InCall =>
        \A i \in NewRequests :
            ~ hist.given[i][3] =>
                \A k \in FlaggedEdges(hist.given[i][1][2]) :
                    /\ (SamplesOf(i, k)[1] >= args.iso) # (SamplesOf(i, k)[2] >= args.iso)
                    /\ SamplesOf(i, k)[1] # SamplesOf(i, k)[2]
                    /\ DenominatorOf(i, k) # 0

(* what holds of C21: the two samples of a flagged edge are on opposite     *)
(* sides of iso and differ, and the denominator is not zero when float      *)
(* holds both samples exactly                                               *)
C21_FlaggedEdgesCrossed ==
    InCall =>
        \A i \in NewRequests :
            ~ hist.given[i][3] =>
                \A k \in FlaggedEdges(hist.given[i][1][2]) :
                    /\ (SamplesOf(i, k)[1] >= args.iso) # (SamplesOf(i, k)[2] >= args.iso)
                    /\ SamplesOf(i, k)[1] # SamplesOf(i, k)[2]
                    /\ (/\ ToFloat(SamplesOf(i, k)[1]) = SamplesOf(i, k)[1]
                        /\ ToFloat(SamplesOf(i, k)[2]) = SamplesOf(i, k)[2])
                           => DenominatorOf(i, k) # 0

(* a returned mesh with a vertex that has a non-finite coordinate *)
C21_NonFiniteVertex ==
    /\ pc = "returned"
    /\ \E v \in 1..Len(mesh.vertices) : \E c \in 1..3 : mesh.vertices[v][c][2] = 0

(* a dimension is <= 2, or two of the three dimensions are <= 3 *)
SmallShape(d) ==
    \/ \E i \in 1..3 : d[i] <= 2
    \/ Cardinality({i \in 1..3 : d[i] <= 3}) >= 2

(* C22: a call on a volume with a dimension <= 2, or with two dimensions    *)
(* <= 3, builds no face and returns the mesh with no vertex and no index,   *)
(* whatever the samples, iso, manifold flag and topology; and a face built  *)
(* along an axis has dimension >= 3 on that axis and >= 4 on the other two. *)
C22_SmallShapeEmptyMesh ==
    /\ (InCall /\ SmallShape(args.dimension)) => (pc # "face" /\ mesh = EmptyMesh)
    /\ JustBuilt =>
          \A i \in 1..3 : args.dimension[i] >= (IF i = BuiltAxis THEN 3 ELSE 4)

(* a returned call on a 3x3x5 checkerboard, where every grid edge changes   *)
(* sign                                                                     *)
C22_Witness ==
    /\ pc = "returned"
    /\ args.dimension = <<3, 3, 5>>
    /\ \A p \in Positions(args.dimension) :
          p[3] < 4 => (SampleOf(args, p) >= args.iso)
                          # (SampleOf(args, [p EXCEPT ![3] = @ + 1]) >= args.iso)
    /\ mesh = EmptyMesh

(* a returned call on a 2x4x4 volume with sign changes *)
C22_TwoLayers ==
    /\ pc = "returned"
    /\ args.dimension = <<2, 4, 4>>
    /\ ~ Uniform(args)
    /\ mesh = EmptyMesh

(* a face along the axis of dimension 3 of a volume whose other dimensions  *)
(* are 4                                                                    *)
C22_FaceOnThinAxis ==
    /\ JustBuilt
    /\ args.dimension[BuiltAxis] = 3
    /\ \A i \in 1..3 : i # BuiltAxis => args.dimension[i] = 4
====
